---------------------------- MODULE Spec2Model ----------------------------
(***************************************************************************)
(* Model of the scouting server's two analytics scripts:                   *)
(*                                                                         *)
(*   calculate_timd.py     the Metrics Extractor: one robot's timeline of  *)
(*                         one match -> its calculatedData, written to the *)
(*                         cache and the upload queue;                     *)
(*   calculate_defense.py  the Defense Attribution Engine: one run over    *)
(*                         every cached TIMD, match by match.              *)
(*                                                                         *)
(* A Python dict is a function whose domain is the set of its keys, a      *)
(* Python list a sequence.  Python floats are modelled as exact rationals  *)
(* <<numerator, denominator>>; the times of a timeline are whole seconds.  *)
(* An uncaught Python exception ends the script that raised it: the model  *)
(* records its name in `error'.                                            *)
(***************************************************************************)
EXTENDS Integers, Sequences, FiniteSets, TLC

VARIABLES
    final_timd,     \* TIMD name -> the timeline consolidation returns for it
    cache,          \* data/cache/timds/<name>.json
    upload_queue,   \* data/upload_queue/timds/<name>.json
    match_schedule, \* data/cache/match_schedule/<match>.json
    teams,          \* data/cache/teams/<team>.json
    listing,        \* the order os.listdir gives the cached TIMD files in
    pc,             \* where the run of calculate_defense.py stands
    error,          \* the exception that ended the last script, or "none"
    TIMDS_BY_MATCH, \* calculate_defense.py's in-memory copy of the cache
    match_queue,    \* matches the outer loop has still to visit
    match_number,
    timds_by_alliance,
    defending_timds_by_alliance,
    alliance,       \* loop variable of lines 47-64, "unbound" before its first assignment
    defender_queue, \* <<alliance, timd>> pairs lines 64-69 have still to visit
    timd,           \* the defender being processed
    time_pairs,
    team_number,
    game_piece,     \* "unbound" before its first assignment
    opponent_queue, \* opposing TIMDs line 108 has still to visit
    defended_cycles_by_team,
    alliance_points_prevented,
    alliance_failed_cycles_caused,
    DEFENDER_TEAMS,
    requested,      \* teams whose aggregate the run asked to recompute
    writes,         \* history: the defense fields this run stored, per TIMD
    prev_writes     \* history: whether a run ended before, and its writes

vars == <<final_timd, cache, upload_queue, match_schedule, teams, listing,
          pc, error, TIMDS_BY_MATCH, match_queue, match_number,
          timds_by_alliance, defending_timds_by_alliance, alliance,
          defender_queue, timd, time_pairs, team_number, game_piece,
          opponent_queue, defended_cycles_by_team,
          alliance_points_prevented, alliance_failed_cycles_caused,
          DEFENDER_TEAMS, requested, writes, prev_writes>>

stores == <<final_timd, match_schedule, teams, listing>>

run_vars == <<pc, TIMDS_BY_MATCH, match_queue, match_number,
              timds_by_alliance, defending_timds_by_alliance, alliance,
              defender_queue, timd, time_pairs, team_number, game_piece,
              opponent_queue, defended_cycles_by_team,
              alliance_points_prevented, alliance_failed_cycles_caused,
              DEFENDER_TEAMS, requested, writes, prev_writes>>

-----------------------------------------------------------------------------
(* Python values *)

\* Python's None, where the other values of the field are rationals.
None == <<>>

\* A file that does not exist.
NoFile == [nofile |-> TRUE]

Has(dict, key) == key \in DOMAIN dict

\* dict.update(other): the keys of `other' are added or overwritten.
Update(dict, other) ==
    [k \in DOMAIN dict \cup DOMAIN other |->
        IF k \in DOMAIN other THEN other[k] ELSE dict[k]]

EmptyDict == [k \in {} |-> 0]

RECURSIVE SumSeq(_)
SumSeq(s) == IF s = <<>> THEN 0 ELSE Head(s) + SumSeq(Tail(s))

-----------------------------------------------------------------------------
(* Rationals, for Python's float arithmetic *)

Abs(n) == IF n < 0 THEN -n ELSE n

RECURSIVE GCD(_, _)
GCD(a, b) == IF b = 0 THEN a ELSE GCD(b, a % b)

\* n/d in lowest terms with a positive denominator (d # 0).
Rat(n, d) ==
    LET g == GCD(Abs(n), Abs(d))
        s == IF d < 0 THEN -1 ELSE 1
    IN  <<(s * n) \div g, (s * d) \div g>>

RatInt(n) == <<n, 1>>
RatAdd(a, b) == Rat(a[1] * b[2] + b[1] * a[2], a[2] * b[2])
RatSub(a, b) == Rat(a[1] * b[2] - b[1] * a[2], a[2] * b[2])
RatMul(a, b) == Rat(a[1] * b[1], a[2] * b[2])
\* a / b for b # 0; the callers raise ZeroDivisionError before using it on 0.
RatDiv(a, b) == Rat(a[1] * b[2], a[2] * b[1])
RatIsZero(a) == a[1] = 0

\* Python 3's round(): to the nearest integer, a half to the even one.
Round(a) ==
    LET q == a[1] \div a[2]
        r == a[1] % a[2]
    IN  IF 2 * r < a[2] THEN q
        ELSE IF 2 * r > a[2] THEN q + 1
        ELSE IF q % 2 = 0 THEN q ELSE q + 1

-----------------------------------------------------------------------------
(* calculate_timd.py: the Metrics Extractor *)

SANDSTORM_END == 135

\* utils.avg(lis, default): the mean of a list, `default' for an empty one.
\* utils.py is not among the sources; calculate_avg_cycle_time passes the
\* default explicitly.
avg(lis, default) ==
    IF lis = <<>> THEN default ELSE Rat(SumSeq(lis), Len(lis))

\* The default utils.avg returns for an empty list when the caller passes
\* none: percent_success multiplies the result by 100, so it is a number.
AVG_DEFAULT == RatInt(0)

\* timd.get('timeline', [])
TimelineOf(timd_data) ==
    IF Has(timd_data, "timeline") THEN timd_data.timeline ELSE <<>>

\* FilterHolds with the teleop test made strict: an action at 135 exactly
\* is neither in the sandstorm nor in teleop.
FilterHoldsStrictTele(action, data_field, requirement) ==
    IF data_field = "level" /\ requirement = 1
    THEN ~(Has(action, "level") /\ action.level # 1)
    ELSE IF data_field = "zone" /\ requirement = "loadingStation"
    THEN Has(action, "zone")
         /\ action.zone \in {"leftLoadingStation", "rightLoadingStation"}
    ELSE IF data_field = "time"
    THEN /\ ~(requirement = "sand" /\ action.time <= SANDSTORM_END)
         /\ ~(requirement = "tele" /\ action.time >= SANDSTORM_END)
    ELSE Has(action, data_field) /\ action[data_field] = requirement

\* Whether one filter lets the action through (lines 119-139).  The zone
\* filter reads action['zone'], which raises KeyError when there is none;
\* FilterKeyError says when that read is reached.
FilterHolds(action, data_field, requirement) ==
    IF data_field = "level" /\ requirement = 1
    THEN ~(Has(action, "level") /\ action.level # 1)
    ELSE IF data_field = "zone" /\ requirement = "loadingStation"
    THEN Has(action, "zone")
         /\ action.zone \in {"leftLoadingStation", "rightLoadingStation"}
    ELSE IF data_field = "time"
    THEN /\ ~(requirement = "sand" /\ action.time <= SANDSTORM_END)
         /\ ~(requirement = "tele" /\ action.time > SANDSTORM_END)
    ELSE Has(action, data_field) /\ action[data_field] = requirement

\* The action passes when no filter breaks.
FilterPasses(action, filters) ==
    \A i \in 1..Len(filters) :
        FilterHolds(action, filters[i][1], filters[i][2])

\* The filters are tried in the order given and the first that fails
\* breaks: the zone filter raises when every filter before it held and the
\* action has no zone.
FilterKeyError(action, filters) ==
    \E i \in 1..Len(filters) :
        /\ filters[i][1] = "zone"
        /\ ~Has(action, "zone")
        /\ \A j \in 1..(i - 1) :
               FilterHolds(action, filters[j][1], filters[j][2])

filter_timeline_actions(timd_data, filters) ==
    SelectSeq(TimelineOf(timd_data),
              LAMBDA action : FilterPasses(action, filters))

\* Whether filter_timeline_actions raises instead of returning.
FilterRaises(timd_data, filters) ==
    \E i \in 1..Len(TimelineOf(timd_data)) :
        FilterKeyError(TimelineOf(timd_data)[i], filters)

\* One cycle against the filters; a cycle is judged by its second action.
CyclePasses(cycle, filters) ==
    \A i \in 1..Len(filters) :
        IF filters[i][1] = "level" /\ filters[i][2] = 1
        THEN ~(Has(cycle[2], "level") /\ cycle[2].level # 1)
        ELSE Has(cycle[2], filters[i][1])
             /\ cycle[2][filters[i][1]] = filters[i][2]

filter_cycles(cycle_list, filters) ==
    SelectSeq(cycle_list, LAMBDA cycle : CyclePasses(cycle, filters))

\* The time a cycle took: time counts down, so the first minus the second.
CycleTime(cycle) == cycle[1].time - cycle[2].time

calculate_avg_cycle_time(cycles) ==
    avg([i \in 1..Len(cycles) |-> CycleTime(cycles[i])], None)

calculate_total_action_duration(cycles) ==
    SumSeq([i \in 1..Len(cycles) |-> CycleTime(cycles[i])])

\* zip(cycle_list[::2], cycle_list[1::2])
make_paired_cycle_list(cycle_list) ==
    [i \in 1..(Len(cycle_list) \div 2) |->
        <<cycle_list[2 * i - 1], cycle_list[2 * i]>>]

percent_success(actions) ==
    LET successes == [i \in 1..Len(actions) |->
                        IF actions[i].didSucceed THEN 1 ELSE 0]
    IN  Round(RatMul(RatInt(100), avg(successes, AVG_DEFAULT)))

OfTypes(timeline, types) == SelectSeq(timeline, LAMBDA a : a.type \in types)

Capitalize(piece) == IF piece = "cargo" THEN "Cargo" ELSE "Panel"

\* The counting data points: the field and the filters its actions meet.
COUNT_FIELDS ==
    [cargoScored |->
        <<<<"type", "placement">>, <<"didSucceed", TRUE>>, <<"piece", "cargo">>>>,
     panelsScored |->
        <<<<"type", "placement">>, <<"didSucceed", TRUE>>, <<"piece", "panel">>>>,
     cargoFouls |->
        <<<<"shotOutOfField", TRUE>>>>,
     pinningFouls |->
        <<<<"type", "pinningFoul">>>>,
     cargoDrops |->
        <<<<"type", "drop">>, <<"piece", "cargo">>>>,
     panelDrops |->
        <<<<"type", "drop">>, <<"piece", "panel">>>>,
     cargoFails |->
        <<<<"type", "placement">>, <<"didSucceed", FALSE>>, <<"piece", "cargo">>>>,
     panelFails |->
        <<<<"type", "placement">>, <<"didSucceed", FALSE>>, <<"piece", "panel">>>>,
     cargoScoredSandstorm |->
        <<<<"type", "placement">>, <<"piece", "cargo">>, <<"didSucceed", TRUE>>, <<"time", "sand">>>>,
     panelsScoredSandstorm |->
        <<<<"type", "placement">>, <<"piece", "panel">>, <<"didSucceed", TRUE>>, <<"time", "sand">>>>,
     cargoScoredTeleL1 |->
        <<<<"type", "placement">>, <<"piece", "cargo">>, <<"level", 1>>, <<"didSucceed", TRUE>>, <<"time", "tele">>>>,
     cargoScoredTeleL2 |->
        <<<<"type", "placement">>, <<"piece", "cargo">>, <<"level", 2>>, <<"didSucceed", TRUE>>, <<"time", "tele">>>>,
     cargoScoredTeleL3 |->
        <<<<"type", "placement">>, <<"piece", "cargo">>, <<"level", 3>>, <<"didSucceed", TRUE>>, <<"time", "tele">>>>,
     panelsScoredTeleL1 |->
        <<<<"type", "placement">>, <<"piece", "panel">>, <<"level", 1>>, <<"didSucceed", TRUE>>, <<"time", "tele">>>>,
     panelsScoredTeleL2 |->
        <<<<"type", "placement">>, <<"piece", "panel">>, <<"level", 2>>, <<"didSucceed", TRUE>>, <<"time", "tele">>>>,
     panelsScoredTeleL3 |->
        <<<<"type", "placement">>, <<"piece", "panel">>, <<"level", 3>>, <<"didSucceed", TRUE>>, <<"time", "tele">>>>,
     cargoScoredL1 |->
        <<<<"type", "placement">>, <<"piece", "cargo">>, <<"level", 1>>, <<"didSucceed", TRUE>>>>,
     cargoScoredL2 |->
        <<<<"type", "placement">>, <<"piece", "cargo">>, <<"level", 2>>, <<"didSucceed", TRUE>>>>,
     cargoScoredL3 |->
        <<<<"type", "placement">>, <<"piece", "cargo">>, <<"level", 3>>, <<"didSucceed", TRUE>>>>,
     panelsScoredL1 |->
        <<<<"type", "placement">>, <<"piece", "panel">>, <<"level", 1>>, <<"didSucceed", TRUE>>>>,
     panelsScoredL2 |->
        <<<<"type", "placement">>, <<"piece", "panel">>, <<"level", 2>>, <<"didSucceed", TRUE>>>>,
     panelsScoredL3 |->
        <<<<"type", "placement">>, <<"piece", "panel">>, <<"level", 3>>, <<"didSucceed", TRUE>>>>]

\* The success percentages: the field and the filters of its actions.
SUCCESS_FIELDS ==
    [panelLoadSuccess |->
        <<<<"type", "intake">>, <<"piece", "panel">>, <<"zone", "loadingStation">>>>,
     cargoSuccessAll |->
        <<<<"type", "placement">>, <<"piece", "cargo">>>>,
     cargoSuccessDefended |->
        <<<<"type", "placement">>, <<"piece", "cargo">>, <<"wasDefended", TRUE>>>>,
     cargoSuccessUndefended |->
        <<<<"type", "placement">>, <<"piece", "cargo">>, <<"wasDefended", FALSE>>>>,
     cargoSuccessL1 |->
        <<<<"type", "placement">>, <<"piece", "cargo">>, <<"level", 1>>>>,
     cargoSuccessL2 |->
        <<<<"type", "placement">>, <<"piece", "cargo">>, <<"level", 2>>>>,
     cargoSuccessL3 |->
        <<<<"type", "placement">>, <<"piece", "cargo">>, <<"level", 3>>>>,
     panelSuccessAll |->
        <<<<"type", "placement">>, <<"piece", "panel">>>>,
     panelSuccessDefended |->
        <<<<"type", "placement">>, <<"piece", "panel">>, <<"wasDefended", TRUE>>>>,
     panelSuccessUndefended |->
        <<<<"type", "placement">>, <<"piece", "panel">>, <<"wasDefended", FALSE>>>>,
     panelSuccessL1 |->
        <<<<"type", "placement">>, <<"piece", "panel">>, <<"level", 1>>>>,
     panelSuccessL2 |->
        <<<<"type", "placement">>, <<"piece", "panel">>, <<"level", 2>>>>,
     panelSuccessL3 |->
        <<<<"type", "placement">>, <<"piece", "panel">>, <<"level", 3>>>>]

\* The average cycle times: the field and the filters of its cycles.
CYCLE_FIELDS ==
    [cargoCycleAll |->
        <<<<"piece", "cargo">>>>,
     cargoCycleL1 |->
        <<<<"piece", "cargo">>, <<"level", 1>>>>,
     cargoCycleL2 |->
        <<<<"piece", "cargo">>, <<"level", 2>>>>,
     cargoCycleL3 |->
        <<<<"piece", "cargo">>, <<"level", 3>>>>,
     panelCycleAll |->
        <<<<"piece", "panel">>>>,
     panelCycleL1 |->
        <<<<"piece", "panel">>, <<"level", 1>>>>,
     panelCycleL2 |->
        <<<<"piece", "panel">>, <<"level", 2>>>>,
     panelCycleL3 |->
        <<<<"piece", "panel">>, <<"level", 3>>>>]

FieldNames(fields) == DOMAIN fields
FiltersOf(fields, name) == fields[name]


\* CyclesStarted with the test for a trailing intake left out: one is
\* subtracted whenever the last cycle action is of the piece.
CyclesStartedAnyLast(timd_data, piece) ==
    LET intakes == Len(filter_timeline_actions(timd_data,
                        <<<<"type", "intake">>, <<"piece", piece>>>>))
        cycle_actions == OfTypes(TimelineOf(timd_data),
                                 {"placement", "intake", "drop"})
        last == cycle_actions[Len(cycle_actions)]
    IN  IF Len(cycle_actions) > 0 /\ last.piece = piece
        THEN intakes - 1 ELSE intakes

\* cargoCycles / panelCycles: the intakes of the piece, less the trailing
\* intake when the last cycle action of the timeline is one.
CyclesStarted(timd_data, piece) ==
    LET intakes == Len(filter_timeline_actions(timd_data,
                        <<<<"type", "intake">>, <<"piece", piece>>>>))
        cycle_actions == OfTypes(TimelineOf(timd_data),
                                 {"placement", "intake", "drop"})
        last == cycle_actions[Len(cycle_actions)]
    IN  IF Len(cycle_actions) > 0 /\ last.type = "intake"
           /\ last.piece = piece
        THEN intakes - 1 ELSE intakes

\* The cycle list before pairing: intakes that did not fail, placements and
\* drops, less a leading placement or drop and a trailing intake.  Only
\* used when the unstripped list holds at least 2 actions.
UnstrippedCycleList(timd_data) ==
    SelectSeq(TimelineOf(timd_data),
              LAMBDA action :
                  /\ action.type \in {"intake", "placement", "drop"}
                  /\ ~(action.type = "intake" /\ Has(action, "didSucceed")
                       /\ action.didSucceed = FALSE))

StrippedCycleList(cycle_list) ==
    LET popped == IF cycle_list[1].type \in {"placement", "drop"}
                  THEN Tail(cycle_list) ELSE cycle_list
    IN  IF popped[Len(popped)].type = "intake"
        THEN SubSeq(popped, 1, Len(popped) - 1) ELSE popped

paired_cycle_list(timd_data) ==
    make_paired_cycle_list(StrippedCycleList(UnstrippedCycleList(timd_data)))

totalFailedCyclesCaused(timd_data) ==
    LET ends == filter_timeline_actions(timd_data,
                                        <<<<"type", "endDefense">>>>)
    IN  SumSeq([i \in 1..Len(ends) |-> ends[i].failedCyclesCaused])

isIncapEntireMatch(timd_data) ==
    \A i \in 1..Len(TimelineOf(timd_data)) :
        LET action == TimelineOf(timd_data)[i]
        IN  ~(action.type \notin {"incap", "unincap"}
              /\ action.time <= SANDSTORM_END)

timeIncap(timd_data) ==
    LET incap_items == OfTypes(TimelineOf(timd_data), {"incap", "unincap"})
        closed == IF incap_items[Len(incap_items)].type = "incap"
                  THEN Append(incap_items, [type |-> "unincap", time |-> 0])
                  ELSE incap_items
    IN  IF Len(incap_items) > 0
        THEN calculate_total_action_duration(make_paired_cycle_list(closed))
        ELSE 0

timeDefending(timd_data) ==
    LET defense_items == OfTypes(TimelineOf(timd_data),
                                 {"startDefense", "endDefense"})
    IN  IF Len(defense_items) > 0
        THEN calculate_total_action_duration(
                 make_paired_cycle_list(defense_items))
        ELSE 0

\* The exception calculate_timd_data raises on the timeline, or "none".
TimdError(timd_data) ==
    IF \E i \in 1..Len(TimelineOf(timd_data)) :
           /\ TimelineOf(timd_data)[i].type = "endDefense"
           /\ ~Has(TimelineOf(timd_data)[i], "failedCyclesCaused")
    THEN "KeyError"
    ELSE IF FilterRaises(timd_data,
                         FiltersOf(SUCCESS_FIELDS, "panelLoadSuccess"))
    THEN "KeyError"
    ELSE "none"

\* Lines 155-392.  The timelines modelled hold no climb, so the loop of
\* lines 349-354 adds no field.
calculate_timd_data(timd_data) ==
    LET counts == [f \in FieldNames(COUNT_FIELDS) |->
                     Len(filter_timeline_actions(timd_data,
                                                 FiltersOf(COUNT_FIELDS, f)))]
        cycles == [f \in {"cargoCycles", "panelCycles"} |->
                     CyclesStarted(timd_data,
                         IF f = "cargoCycles" THEN "cargo" ELSE "panel")]
        success == [f \in FieldNames(SUCCESS_FIELDS) |->
                      percent_success(filter_timeline_actions(timd_data,
                                          FiltersOf(SUCCESS_FIELDS, f)))]
        paired == paired_cycle_list(timd_data)
        cycle_times ==
            IF Len(UnstrippedCycleList(timd_data)) > 1
            THEN [f \in FieldNames(CYCLE_FIELDS) |->
                     calculate_avg_cycle_time(
                         filter_cycles(paired, FiltersOf(CYCLE_FIELDS, f)))]
            ELSE EmptyDict
        rest == [totalFailedCyclesCaused |-> totalFailedCyclesCaused(timd_data),
                 isIncapEntireMatch |-> isIncapEntireMatch(timd_data),
                 timeIncap |-> timeIncap(timd_data),
                 timeDefending |-> timeDefending(timd_data)]
    IN  counts @@ cycles @@ success @@ cycle_times @@ rest

-----------------------------------------------------------------------------
(* TIMD names and the script calculate_timd.py *)

\* A TIMD name is <team>Q<match>; split('Q') gives its two parts.
TimdName(team, match) == <<team, match>>
TeamOf(timd_name) == timd_name[1]
MatchOf(timd_name) == timd_name[2]

\* int() of a number written in decimal.
ToInt(str) == CHOOSE n \in 0..99 : ToString(n) = str

\* Lines 424-432: consolidation's TIMD with its identifiers and a freshly
\* computed calculatedData.
FinalTimd(TIMD_NAME, consolidated) ==
    Update(consolidated,
           [matchNumber |-> ToInt(MatchOf(TIMD_NAME)),
            teamNumber |-> ToInt(TeamOf(TIMD_NAME)),
            calculatedData |-> calculate_timd_data(consolidated)])

\* One run of calculate_timd.py for TIMD_NAME: consolidation's TIMD gets
\* its identifiers and a freshly computed calculatedData, and replaces the
\* file in the cache and in the upload queue.  A run that raises writes
\* nothing.  The scripts run one at a time.
calculate_timd(TIMD_NAME) ==
    /\ pc \in {"idle", "done", "crashed"}
    /\ error' = TimdError(final_timd[TIMD_NAME])
    /\ IF error' = "none"
       THEN \E FINAL_TIMD \in {FinalTimd(TIMD_NAME, final_timd[TIMD_NAME])} :
                /\ cache' = [cache EXCEPT ![TIMD_NAME] = FINAL_TIMD]
                /\ upload_queue' =
                       [upload_queue EXCEPT ![TIMD_NAME] = FINAL_TIMD]
       ELSE UNCHANGED <<cache, upload_queue>>
    /\ UNCHANGED stores
    /\ UNCHANGED run_vars

Extract == \E TIMD_NAME \in DOMAIN final_timd : calculate_timd(TIMD_NAME)

-----------------------------------------------------------------------------
(* calculate_defense.py: the Defense Attribution Engine *)

\* None where the other values are times: last_start_defense and
\* intake_time before their first assignment.  Times are never negative.
NONE_TIME == -1

Unbound == "unbound"

\* {'red': {}, 'blue': {}}: a dict of TIMDs is the sequence of its keys, in
\* insertion order; the values are the objects of TIMDS_BY_MATCH.
NoTimds == [red |-> <<>>, blue |-> <<>>]

\* The TIMDs of the listing whose file holds calculatedData, by match
\* (lines 13-24).  Every cached file holds a JSON object.
LoadedNames ==
    SelectSeq(listing, LAMBDA n : /\ cache[n] # NoFile
                                  /\ Has(cache[n], "calculatedData"))

\* The matches in the order they were first inserted.
RECURSIVE MatchesOf(_, _)
MatchesOf(names, seen) ==
    IF names = <<>> THEN <<>>
    ELSE IF MatchOf(Head(names)) \in seen THEN MatchesOf(Tail(names), seen)
    ELSE <<MatchOf(Head(names))>>
         \o MatchesOf(Tail(names), seen \cup {MatchOf(Head(names))})

\* timd_data['calculatedData'].get('timeDefending', 0) > 0
PlayedDefense(timd_data) ==
    /\ Has(timd_data.calculatedData, "timeDefending")
    /\ timd_data.calculatedData.timeDefending > 0

\* The alliance lines 51-56 leave in `alliance' for a team: its roster's,
\* or, for a team on neither roster, whatever the variable held before.
AllianceOf(team, schedule, previous) ==
    IF team \in schedule.redTeams THEN "red"
    ELSE IF team \in schedule.blueTeams THEN "blue"
    ELSE previous

\* Lines 47-62 over the TIMDs of a match: st holds `alliance', the two
\* dicts and the exception raised, if any.  Reading `alliance' before it
\* was ever assigned raises NameError.
RECURSIVE assign_alliances(_, _, _, _)
assign_alliances(names, schedule, data, st) ==
    IF names = <<>> \/ st.error # "none" THEN st
    ELSE LET timd_name == Head(names)
             a == AllianceOf(TeamOf(timd_name), schedule, st.alliance)
         IN  IF a = Unbound THEN [st EXCEPT !.error = "NameError"]
             ELSE assign_alliances(Tail(names), schedule, data,
                    [alliance |-> a,
                     timds |-> [st.timds EXCEPT ![a] = Append(@, timd_name)],
                     defending |->
                        IF PlayedDefense(data[timd_name])
                        THEN [st.defending EXCEPT ![a] = Append(@, timd_name)]
                        ELSE st.defending,
                     error |-> "none"])

\* Lines 70-87: the (start, end) pairs of a defender's timeline.
RECURSIVE defense_pairs(_, _, _, _)
defense_pairs(timeline, last_action_type, last_start_defense, pairs) ==
    IF timeline = <<>> THEN pairs
    ELSE LET action == Head(timeline)
         IN  IF action.type \in {"startDefense", "endDefense"}
                /\ action.type # last_action_type
             THEN IF action.type = "startDefense"
                  THEN defense_pairs(Tail(timeline), action.type,
                                     action.time, pairs)
                  ELSE defense_pairs(Tail(timeline), action.type,
                                     last_start_defense,
                                     Append(pairs, <<last_start_defense,
                                                     action.time>>))
             ELSE defense_pairs(Tail(timeline), last_action_type,
                                last_start_defense, pairs)

\* The window of the only defender of an alliance (line 95).
TELEOP_START == 135
MATCH_END == 0

\* Lines 70-95.
time_pairs_of(timeline, n_defenders) ==
    IF n_defenders = 1 THEN <<<<TELEOP_START, MATCH_END>>>>
    ELSE defense_pairs(timeline, "None", NONE_TIME, <<>>)

\* Line 131 for one action: the pairs whose window holds `time'.
\* None > time raises TypeError.
PairsHolding(pairs, time) ==
    SelectSeq(pairs, LAMBDA pair : pair[1] > time /\ time > pair[2])

PairsRaise(pairs) == \E i \in 1..Len(pairs) : pairs[i][1] = NONE_TIME

\* action.get('wasDefended', False) is False
NotDefended(action) ==
    ~Has(action, "wasDefended") \/ action.wasDefended = FALSE

\* Lines 120-134 over an opponent's timeline.  st holds intake_time,
\* game_piece, the timeline with the actions as the scan leaves them,
\* defended_cycles and the exception raised, if any.  An action inside
\* several windows is appended once for each.
RECURSIVE scan_timeline(_, _, _)
scan_timeline(actions, pairs, st) ==
    IF actions = <<>> \/ st.error # "none" THEN st
    ELSE LET action == Head(actions)
             hits == Len(PairsHolding(pairs, action.time))
             marked == Update(action, [intakeTime |-> st.intake_time,
                                       piece |-> st.game_piece])
         IN  IF NotDefended(action)
             THEN scan_timeline(Tail(actions), pairs,
                    [st EXCEPT
                      !.intake_time = IF action.type = "intake"
                                      THEN action.time ELSE @,
                      !.game_piece = IF action.type = "intake"
                                     THEN action.piece ELSE @,
                      !.timeline = Append(@, action)])
             ELSE IF pairs # <<>> /\ PairsRaise(pairs)
             THEN [st EXCEPT !.error = "TypeError"]
             ELSE IF hits = 0
             THEN scan_timeline(Tail(actions), pairs,
                                [st EXCEPT !.timeline = Append(@, action)])
             ELSE IF st.game_piece = Unbound
             THEN [st EXCEPT !.error = "NameError"]
             ELSE scan_timeline(Tail(actions), pairs,
                    [st EXCEPT
                      !.timeline = Append(@, marked),
                      !.defended_cycles =
                          @ \o [i \in 1..hits |-> marked]])

\* Lines 116-119: the timeline less a leading placement or drop.
WithoutPreload(timeline) ==
    IF timeline[1].type \in {"placement", "drop"}
    THEN Tail(timeline) ELSE timeline

PIECES == <<"cargo", "panel">>

\* Lines 143-158: what the defended cycles of one opponent count up to.
CyclesOfPiece(defended_cycles, piece) ==
    SelectSeq(defended_cycles, LAMBDA action : action.piece = piece)

drops_of(defended_cycles, piece) ==
    Len(SelectSeq(CyclesOfPiece(defended_cycles, piece),
                  LAMBDA action : action.type = "drop"))

fails_of(defended_cycles, piece) ==
    Len(SelectSeq(CyclesOfPiece(defended_cycles, piece),
                  LAMBDA action : /\ action.type = "placement"
                                  /\ action.didSucceed = FALSE))

\* The defended placements that did not fail: their times go to cycle_times.
TimedCycles(defended_cycles, piece) ==
    SelectSeq(CyclesOfPiece(defended_cycles, piece),
              LAMBDA action : /\ action.type = "placement"
                              /\ action.didSucceed # FALSE)

cycle_times_of(defended_cycles, piece) ==
    LET timed == TimedCycles(defended_cycles, piece)
    IN  [i \in 1..Len(timed) |-> timed[i].intakeTime - timed[i].time]

\* Line 199-201.
CARGO_POINTS == 3
PANEL_POINTS == 2
points_of(piece) == IF piece = "cargo" THEN CARGO_POINTS ELSE PANEL_POINTS

\* Lines 193-194 with the rate differential multiplied by the cycles under
\* defense instead of the drops (or fails).
caused_by_cycles(events, cycles, avg_events, avg_cycles) ==
    RatMul(RatSub(Rat(events, cycles), Rat(avg_events, avg_cycles)),
           RatInt(cycles))

\* Lines 188-189, 193-194: (defended rate - average rate) * events, for
\* the drops and for the fails.
caused(events, cycles, avg_events, avg_cycles) ==
    RatMul(RatSub(Rat(events, cycles), Rat(avg_events, avg_cycles)),
           RatInt(events))

\* Lines 191-192, 197: the sum of (cycle_time - avg_cycle_time) over
\* avg_cycle_time.
lost_cycles_of(cycle_times, avg_cycle_time) ==
    RatDiv(RatInt(SumSeq(cycle_times) - Len(cycle_times) * avg_cycle_time),
           RatInt(avg_cycle_time))

\* The Team Baseline fields lines 185-190 read for a piece.
BaselineFields(piece) ==
    [drops |-> "avg" \o Capitalize(piece) \o "Drops",
     fails |-> "avg" \o Capitalize(piece) \o "Fails",
     cycles |-> "avg" \o Capitalize(piece) \o "Cycles",
     cycle_time |-> piece \o "CycleAll"]

\* Lines 180-203 for one piece with cycles under defense: the exception
\* raised, or the points prevented and the failed cycles caused.
piece_prevented(defended_cycles, calculated_data, piece) ==
    LET fields == BaselineFields(piece)
        cycles == Len(CyclesOfPiece(defended_cycles, piece))
        drops == drops_of(defended_cycles, piece)
        fails == fails_of(defended_cycles, piece)
        avg_drops == calculated_data[fields.drops]
        avg_fails == calculated_data[fields.fails]
        avg_cycles == calculated_data[fields.cycles]
        avg_cycle_time == calculated_data[fields.cycle_time]
        drops_caused == caused(drops, cycles, avg_drops, avg_cycles)
        fails_caused == caused(fails, cycles, avg_fails, avg_cycles)
        lost_cycles == lost_cycles_of(cycle_times_of(defended_cycles, piece),
                                      avg_cycle_time)
    IN  IF ~({fields.drops, fields.fails, fields.cycles}
               \subseteq DOMAIN calculated_data)
        THEN [error |-> "KeyError"]
        ELSE IF avg_cycles = 0 THEN [error |-> "ZeroDivisionError"]
        ELSE IF ~Has(calculated_data, fields.cycle_time)
        THEN [error |-> "KeyError"]
        ELSE IF avg_cycle_time = 0 THEN [error |-> "ZeroDivisionError"]
        ELSE [error |-> "none",
              points_prevented |->
                  RatMul(RatInt(points_of(piece)),
                         RatAdd(RatAdd(drops_caused, fails_caused),
                                lost_cycles)),
              failed_cycles_caused |-> RatAdd(drops_caused, fails_caused)]

\* Lines 141-205 for one opponent: the exception raised, or its
\* points_prevented and failed_cycles_caused, each a dict by piece.
team_prevented(defended_cycles, team_file) ==
    LET defended == {piece \in {"cargo", "panel"} :
                        CyclesOfPiece(defended_cycles, piece) # <<>>}
        by_piece == [piece \in defended |->
                        piece_prevented(defended_cycles,
                                        team_file.calculatedData, piece)]
        first_error(piece_seq) ==
            LET bad == SelectSeq(piece_seq,
                                 LAMBDA piece : /\ piece \in defended
                                                /\ by_piece[piece].error
                                                       # "none")
            IN  IF bad = <<>> THEN "none" ELSE by_piece[bad[1]].error
    IN  IF \E i \in 1..Len(defended_cycles) :
               /\ defended_cycles[i].type = "placement"
               /\ defended_cycles[i].didSucceed # FALSE
               /\ defended_cycles[i].intakeTime = NONE_TIME
        THEN [error |-> "TypeError"]
        ELSE IF team_file = NoFile THEN [error |-> "FileNotFoundError"]
        ELSE IF ~Has(team_file, "calculatedData") THEN [error |-> "KeyError"]
        ELSE IF first_error(PIECES) # "none"
        THEN [error |-> first_error(PIECES)]
        ELSE [error |-> "none",
              points_prevented |->
                  [piece \in defended |-> by_piece[piece].points_prevented],
              failed_cycles_caused |->
                  [piece \in defended |->
                      by_piece[piece].failed_cycles_caused]]

\* team_data.get(piece, 0), summed over the opponents (lines 212-217).
RECURSIVE SumOfPiece(_, _)
SumOfPiece(by_team, piece) ==
    IF by_team = <<>> THEN RatInt(0)
    ELSE RatAdd(IF Has(Head(by_team)[2], piece)
                THEN Head(by_team)[2][piece] ELSE RatInt(0),
                SumOfPiece(Tail(by_team), piece))

\* Lines 208-227.
update_dict_of(points_prevented, failed_cycles_caused) ==
    [cargoPointsPrevented |-> SumOfPiece(points_prevented, "cargo"),
     panelPointsPrevented |-> SumOfPiece(points_prevented, "panel"),
     pointsPrevented |-> RatAdd(SumOfPiece(points_prevented, "cargo"),
                                SumOfPiece(points_prevented, "panel")),
     superCargoFailedCyclesCaused |->
         SumOfPiece(failed_cycles_caused, "cargo"),
     superPanelFailedCyclesCaused |->
         SumOfPiece(failed_cycles_caused, "panel"),
     superFailedCyclesCaused |->
         RatAdd(SumOfPiece(failed_cycles_caused, "cargo"),
                SumOfPiece(failed_cycles_caused, "panel"))]

\* The write-back adding the new values to the ones the file holds.
accumulated_file(file_data, update_dict) ==
    LET file == IF file_data = NoFile THEN EmptyDict ELSE file_data
        old == IF Has(file, "calculatedData")
               THEN file.calculatedData ELSE EmptyDict
    IN  Update(file,
               [calculatedData |->
                   Update(old,
                          [k \in DOMAIN update_dict |->
                              IF Has(old, k)
                              THEN RatAdd(old[k], update_dict[k])
                              ELSE update_dict[k]])])

\* Lines 229-237: the file of one folder after the write-back; a missing
\* file counts as {}.
updated_file(file_data, update_dict) ==
    LET file == IF file_data = NoFile THEN EmptyDict ELSE file_data
    IN  Update(file,
               [calculatedData |->
                   Update(IF Has(file, "calculatedData")
                          THEN file.calculatedData ELSE EmptyDict,
                          update_dict)])

-----------------------------------------------------------------------------
(* The steps of one run of calculate_defense.py *)

Crash(exception) ==
    /\ pc' = "crashed"
    /\ error' = exception

\* Lines 13-27: a new run loads the cache.
LoadTimds ==
    /\ pc \in {"idle", "done", "crashed"}
    /\ pc' = "match"
    /\ error' = "none"
    /\ TIMDS_BY_MATCH' =
           [m \in {MatchOf(LoadedNames[i]) : i \in 1..Len(LoadedNames)} |->
               [n \in {LoadedNames[i] : i \in 1..Len(LoadedNames)}
                      \cap {k \in DOMAIN cache : MatchOf(k) = m} |->
                   cache[n]]]
    /\ match_queue' = MatchesOf(LoadedNames, {})
    /\ match_number' = Unbound
    /\ timds_by_alliance' = NoTimds
    /\ defending_timds_by_alliance' = NoTimds
    /\ alliance' = Unbound
    /\ defender_queue' = <<>>
    /\ timd' = Unbound
    /\ time_pairs' = <<>>
    /\ team_number' = Unbound
    /\ game_piece' = Unbound
    /\ opponent_queue' = <<>>
    /\ defended_cycles_by_team' = <<>>
    /\ alliance_points_prevented' = <<>>
    /\ alliance_failed_cycles_caused' = <<>>
    /\ DEFENDER_TEAMS' = {}
    /\ requested' = {}
    /\ prev_writes' = IF pc = "idle" THEN prev_writes
                      ELSE [ran |-> TRUE, wrote |-> writes]
    /\ writes' = EmptyDict
    /\ UNCHANGED <<stores, cache, upload_queue>>

\* Lines 29-63: the next match; its TIMDs are put in their alliances.
BeginMatch ==
    /\ pc = "match"
    /\ match_queue # <<>>
    /\ LET m == Head(match_queue)
           names == SelectSeq(listing, LAMBDA n : n \in DOMAIN TIMDS_BY_MATCH[m])
           st == assign_alliances(names, match_schedule[m], TIMDS_BY_MATCH[m],
                                  [alliance |-> alliance, timds |-> NoTimds,
                                   defending |-> NoTimds, error |-> "none"])
       IN  /\ match_number' = m
           /\ match_queue' = Tail(match_queue)
           /\ IF st.error # "none"
              THEN /\ Crash(st.error)
                   /\ UNCHANGED <<timds_by_alliance,
                                  defending_timds_by_alliance, alliance,
                                  defender_queue>>
              ELSE /\ pc' = "defender"
                   /\ error' = "none"
                   /\ timds_by_alliance' = st.timds
                   /\ defending_timds_by_alliance' = st.defending
                   /\ alliance' = st.alliance
                   /\ defender_queue' =
                          [i \in 1..Len(st.defending.red) |->
                              <<"red", st.defending.red[i]>>]
                          \o [i \in 1..Len(st.defending.blue) |->
                                 <<"blue", st.defending.blue[i]>>]
    /\ UNCHANGED <<stores, cache, upload_queue, TIMDS_BY_MATCH, timd,
                   time_pairs, team_number, game_piece, opponent_queue,
                   defended_cycles_by_team, alliance_points_prevented,
                   alliance_failed_cycles_caused, DEFENDER_TEAMS, requested,
                   writes, prev_writes>>

\* Lines 64-107: the next defender, its windows and the alliance it faces.
BeginDefender ==
    /\ pc = "defender"
    /\ defender_queue # <<>>
    /\ LET a == Head(defender_queue)[1]
           n == Head(defender_queue)[2]
           schedule == match_schedule[match_number]
       IN  /\ alliance' = a
           /\ timd' = n
           /\ time_pairs' =
                  time_pairs_of(TIMDS_BY_MATCH[match_number][n].timeline,
                                Len(defending_timds_by_alliance[a]))
           /\ team_number' = TeamOf(n)
           /\ opponent_queue' =
                  IF TeamOf(n) \in schedule.redTeams
                  THEN timds_by_alliance.blue ELSE timds_by_alliance.red
    /\ defender_queue' = Tail(defender_queue)
    /\ defended_cycles_by_team' = <<>>
    /\ alliance_points_prevented' = <<>>
    /\ alliance_failed_cycles_caused' = <<>>
    /\ pc' = "scan"
    /\ UNCHANGED <<stores, cache, upload_queue, error, TIMDS_BY_MATCH,
                   match_queue, match_number, timds_by_alliance,
                   defending_timds_by_alliance, game_piece, DEFENDER_TEAMS,
                   requested, writes, prev_writes>>

\* The loop of line 64 ends after the blue alliance: the match is done.
EndMatch ==
    /\ pc = "defender"
    /\ defender_queue = <<>>
    /\ pc' = "match"
    /\ alliance' = "blue"
    /\ UNCHANGED <<stores, cache, upload_queue, error, TIMDS_BY_MATCH,
                   match_queue, match_number, timds_by_alliance,
                   defending_timds_by_alliance, defender_queue, timd,
                   time_pairs, team_number, game_piece, opponent_queue,
                   defended_cycles_by_team, alliance_points_prevented,
                   alliance_failed_cycles_caused, DEFENDER_TEAMS, requested,
                   writes, prev_writes>>

\* Lines 108-136: one TIMD of the opposing alliance is scanned.  The scan
\* works on the objects TIMDS_BY_MATCH holds: the timeline loses a leading
\* placement or drop, and each defended cycle gets its intakeTime and piece.
ScanOpponent ==
    /\ pc = "scan"
    /\ opponent_queue # <<>>
    /\ LET timd_name == Head(opponent_queue)
           timd_data == TIMDS_BY_MATCH[match_number][timd_name]
       IN  /\ team_number' = TeamOf(timd_name)
           /\ opponent_queue' = Tail(opponent_queue)
           /\ IF ~Has(timd_data, "timeline")
              THEN UNCHANGED <<pc, error, TIMDS_BY_MATCH, game_piece,
                               defended_cycles_by_team>>
              ELSE IF timd_data.timeline = <<>>
              THEN /\ Crash("IndexError")
                   /\ UNCHANGED <<TIMDS_BY_MATCH, game_piece,
                                  defended_cycles_by_team>>
              ELSE \E st \in {scan_timeline(WithoutPreload(timd_data.timeline),
                                 time_pairs,
                                 [intake_time |-> NONE_TIME,
                                  game_piece |-> game_piece,
                                  timeline |-> <<>>,
                                  defended_cycles |-> <<>>,
                                  error |-> "none"])} :
                       IF st.error # "none"
                       THEN /\ Crash(st.error)
                            /\ UNCHANGED <<TIMDS_BY_MATCH, game_piece,
                                           defended_cycles_by_team>>
                       ELSE /\ UNCHANGED <<pc, error>>
                            /\ TIMDS_BY_MATCH' =
                                   [TIMDS_BY_MATCH EXCEPT
                                      ![match_number][timd_name].timeline =
                                          st.timeline]
                            /\ game_piece' = st.game_piece
                            /\ defended_cycles_by_team' =
                                   IF st.defended_cycles # <<>>
                                   THEN Append(defended_cycles_by_team,
                                               <<TeamOf(timd_name),
                                                 st.defended_cycles>>)
                                   ELSE defended_cycles_by_team
    /\ UNCHANGED <<stores, cache, upload_queue, match_queue, match_number,
                   timds_by_alliance, defending_timds_by_alliance, alliance,
                   defender_queue, timd, time_pairs,
                   alliance_points_prevented, alliance_failed_cycles_caused,
                   DEFENDER_TEAMS, requested, writes, prev_writes>>

\* open(data/cache/teams/<team>.json)
TeamFile(team) == IF team \in DOMAIN teams THEN teams[team] ELSE NoFile

\* Lines 138-205: what the defender prevented on each opponent it has
\* defended cycles of; the first exception ends the run.
ComputePrevented ==
    /\ pc = "scan"
    /\ opponent_queue = <<>>
    /\ \E by_team \in
           {[i \in 1..Len(defended_cycles_by_team) |->
               team_prevented(defended_cycles_by_team[i][2],
                              TeamFile(defended_cycles_by_team[i][1]))]} :
           LET bad == SelectSeq(by_team, LAMBDA r : r.error # "none")
           IN  IF bad # <<>>
               THEN /\ Crash(bad[1].error)
                    /\ UNCHANGED <<alliance_points_prevented,
                                   alliance_failed_cycles_caused>>
               ELSE /\ pc' = "save"
                    /\ error' = "none"
                    /\ alliance_points_prevented' =
                           [i \in 1..Len(by_team) |->
                               <<defended_cycles_by_team[i][1],
                                 by_team[i].points_prevented>>]
                    /\ alliance_failed_cycles_caused' =
                           [i \in 1..Len(by_team) |->
                               <<defended_cycles_by_team[i][1],
                                 by_team[i].failed_cycles_caused>>]
    /\ UNCHANGED <<stores, cache, upload_queue, TIMDS_BY_MATCH, match_queue,
                   match_number, timds_by_alliance,
                   defending_timds_by_alliance, alliance, defender_queue,
                   timd, time_pairs, team_number, game_piece, opponent_queue,
                   defended_cycles_by_team, DEFENDER_TEAMS, requested,
                   writes, prev_writes>>

\* Lines 207-241: the totals are written to the defender's file in the
\* cache and in the upload queue, and team_number joins DEFENDER_TEAMS.
SaveDefender ==
    /\ pc = "save"
    /\ \E update_dict \in {update_dict_of(alliance_points_prevented,
                                          alliance_failed_cycles_caused)} :
           /\ cache' = [cache EXCEPT ![timd] = updated_file(@, update_dict)]
           /\ upload_queue' =
                  [upload_queue EXCEPT ![timd] = updated_file(@, update_dict)]
           /\ writes' = (timd :> [k \in DOMAIN update_dict |->
                                     cache'[timd].calculatedData[k]])
                        @@ writes
    /\ DEFENDER_TEAMS' = DEFENDER_TEAMS \cup {team_number}
    /\ pc' = "defender"
    /\ UNCHANGED <<stores, error, TIMDS_BY_MATCH, match_queue, match_number,
                   timds_by_alliance, defending_timds_by_alliance, alliance,
                   defender_queue, timd, time_pairs, team_number, game_piece,
                   opponent_queue, defended_cycles_by_team,
                   alliance_points_prevented, alliance_failed_cycles_caused,
                   requested, prev_writes>>

\* Lines 243-245: after the last match, calculate_team.py is called for
\* every team of DEFENDER_TEAMS.
RecomputeTeams ==
    /\ pc = "match"
    /\ match_queue = <<>>
    /\ requested' = DEFENDER_TEAMS
    /\ pc' = "done"
    /\ UNCHANGED <<stores, cache, upload_queue, error, TIMDS_BY_MATCH,
                   match_queue, match_number, timds_by_alliance,
                   defending_timds_by_alliance, alliance, defender_queue,
                   timd, time_pairs, team_number, game_piece, opponent_queue,
                   defended_cycles_by_team, alliance_points_prevented,
                   alliance_failed_cycles_caused, DEFENDER_TEAMS, writes,
                   prev_writes>>

calculate_defense ==
    \/ LoadTimds
    \/ BeginMatch
    \/ BeginDefender
    \/ EndMatch
    \/ ScanOpponent
    \/ ComputePrevented
    \/ SaveDefender
    \/ RecomputeTeams

Next == calculate_defense \/ Extract

-----------------------------------------------------------------------------
(* Bounded inputs *)

\* Sequences over `actions' of at most `n' actions, times non-increasing.
TimelinesOver(actions, n) ==
    {tl \in UNION {[1..k -> actions] : k \in 0..n} :
        \A i \in 1..(Len(tl) - 1) : tl[i].time >= tl[i + 1].time}

\* The longest timeline given to the Metrics Extractor.
MaxTimelineLen == 3

ExtractorTimes == {140, 40}

ExtractorActions ==
    UNION {{[type |-> "intake", time |-> t, piece |-> "cargo",
             didSucceed |-> TRUE, zone |-> "zone1"],
            [type |-> "intake", time |-> t, piece |-> "panel",
             didSucceed |-> FALSE, zone |-> "leftLoadingStation"],
            [type |-> "placement", time |-> t, piece |-> "cargo",
             didSucceed |-> TRUE, wasDefended |-> FALSE],
            [type |-> "placement", time |-> t, piece |-> "panel",
             didSucceed |-> FALSE, wasDefended |-> TRUE, level |-> 2],
            [type |-> "drop", time |-> t, piece |-> "cargo"],
            [type |-> "incap", time |-> t],
            [type |-> "unincap", time |-> t],
            [type |-> "startDefense", time |-> t],
            [type |-> "endDefense", time |-> t, failedCyclesCaused |-> 0]}
           : t \in ExtractorTimes}

\* The state before a run of calculate_defense.py.
Idle ==
    /\ pc = "idle"
    /\ error = "none"
    /\ TIMDS_BY_MATCH = EmptyDict
    /\ match_queue = <<>>
    /\ match_number = "unbound"
    /\ timds_by_alliance = NoTimds
    /\ defending_timds_by_alliance = NoTimds
    /\ alliance = "unbound"
    /\ defender_queue = <<>>
    /\ timd = "unbound"
    /\ time_pairs = <<>>
    /\ team_number = "unbound"
    /\ game_piece = "unbound"
    /\ opponent_queue = <<>>
    /\ defended_cycles_by_team = <<>>
    /\ alliance_points_prevented = <<>>
    /\ alliance_failed_cycles_caused = <<>>
    /\ DEFENDER_TEAMS = {}
    /\ requested = {}
    /\ writes = EmptyDict
    /\ prev_writes = [ran |-> FALSE, wrote |-> EmptyDict]

\* The Metrics Extractor alone: one TIMD, not yet calculated, with any
\* bounded timeline.
InitTimd ==
    /\ \E tl \in TimelinesOver(ExtractorActions, MaxTimelineLen) :
           final_timd = (TimdName("1", "1") :> [timeline |-> tl])
    /\ cache = (TimdName("1", "1") :> NoFile)
    /\ upload_queue = (TimdName("1", "1") :> NoFile)
    /\ match_schedule = EmptyDict
    /\ teams = EmptyDict
    /\ listing = <<>>
    /\ Idle

NextTimd == Extract

SpecTimd == InitTimd /\ [][NextTimd]_vars

\* The longest timeline of placements and intakes given to the filters.
MaxFilterLen == 2

\* Placements in the sandstorm, at 135 exactly and in teleop, with no
\* level and with levels 1 to 3, and panel intakes at either loading
\* station, elsewhere and with no zone.
FilterActions ==
    UNION {{[type |-> "placement", time |-> t, piece |-> "cargo",
             didSucceed |-> TRUE, wasDefended |-> FALSE],
            [type |-> "placement", time |-> t, piece |-> "cargo",
             didSucceed |-> TRUE, wasDefended |-> FALSE, level |-> 2],
            [type |-> "placement", time |-> t, piece |-> "cargo",
             didSucceed |-> TRUE, wasDefended |-> TRUE, level |-> 3],
            [type |-> "placement", time |-> t, piece |-> "cargo",
             didSucceed |-> FALSE, wasDefended |-> FALSE, level |-> 1],
            [type |-> "placement", time |-> t, piece |-> "panel",
             didSucceed |-> TRUE, wasDefended |-> FALSE, level |-> 1]}
           : t \in {140, 135, 40}}
    \cup {[type |-> "intake", time |-> 100, piece |-> "panel",
           didSucceed |-> TRUE, zone |-> "leftLoadingStation"],
          [type |-> "intake", time |-> 100, piece |-> "panel",
           didSucceed |-> FALSE, zone |-> "rightLoadingStation"],
          [type |-> "intake", time |-> 100, piece |-> "panel",
           didSucceed |-> TRUE, zone |-> "zone1"],
          [type |-> "intake", time |-> 100, piece |-> "panel",
           didSucceed |-> TRUE]}

\* The Metrics Extractor alone on a timeline of placements and intakes.
InitFilter ==
    /\ \E tl \in TimelinesOver(FilterActions, MaxFilterLen) :
           final_timd = (TimdName("1", "1") :> [timeline |-> tl])
    /\ cache = (TimdName("1", "1") :> NoFile)
    /\ upload_queue = (TimdName("1", "1") :> NoFile)
    /\ match_schedule = EmptyDict
    /\ teams = EmptyDict
    /\ listing = <<>>
    /\ Idle

SpecFilter == InitFilter /\ [][NextTimd]_vars

\* The store once calculate_timd.py ran for every TIMD of the listing and
\* the upload queue was emptied by the uploader; a run that raised left no
\* file.
StoreIs(timelines, schedule, team_files) ==
    /\ final_timd = [n \in DOMAIN timelines |-> [timeline |-> timelines[n]]]
    /\ cache = [n \in DOMAIN timelines |->
                   IF TimdError([timeline |-> timelines[n]]) = "none"
                   THEN FinalTimd(n, [timeline |-> timelines[n]])
                   ELSE NoFile]
    /\ upload_queue = [n \in DOMAIN timelines |-> NoFile]
    /\ match_schedule = schedule
    /\ teams = team_files

\* A Team Baseline file with the same averages for both pieces.
Baseline(avg_drops, avg_fails, avg_cycles, cycle_time) ==
    [calculatedData |->
        [avgCargoDrops |-> avg_drops, avgPanelDrops |-> avg_drops,
         avgCargoFails |-> avg_fails, avgPanelFails |-> avg_fails,
         avgCargoCycles |-> avg_cycles, avgPanelCycles |-> avg_cycles,
         cargoCycleAll |-> cycle_time, panelCycleAll |-> cycle_time]]

StartDefense(t) == [type |-> "startDefense", time |-> t]
EndDefense(t) == [type |-> "endDefense", time |-> t, failedCyclesCaused |-> 0]
Intake(t, piece) ==
    [type |-> "intake", time |-> t, piece |-> piece, didSucceed |-> TRUE,
     zone |-> "zone1"]
DefendedPlacement(t, piece, didSucceed) ==
    [type |-> "placement", time |-> t, piece |-> piece,
     didSucceed |-> didSucceed, wasDefended |-> TRUE]
DefendedDrop(t, piece) ==
    [type |-> "drop", time |-> t, piece |-> piece, wasDefended |-> TRUE]
DefendedIntake(t, piece) ==
    [type |-> "intake", time |-> t, piece |-> piece, didSucceed |-> TRUE,
     zone |-> "zone1", wasDefended |-> TRUE]

\* The timelines of the robots of a whole match: no action; defense from
\* 120 to 60 and from 50 to 10; a defended preload, then a panel intake
\* and a defended drop at 90; a cargo intake in the sandstorm, a defended
\* placement at 136 and a defended drop at 30.
RunTimelines ==
    {<<>>,
     <<StartDefense(120), EndDefense(60)>>,
     <<StartDefense(50), EndDefense(10)>>,
     <<DefendedPlacement(140, "cargo", TRUE), Intake(100, "panel"),
       DefendedDrop(90, "cargo")>>,
     <<Intake(140, "cargo"), DefendedPlacement(136, "cargo", TRUE),
       DefendedDrop(30, "cargo")>>}

RunTeams == {"1", "2", "3"}

\* One match of three robots, each on the red roster, the blue roster or
\* neither, each with one of the timelines; every team has a baseline.
InitMatch ==
    /\ \E side \in [RunTeams -> {"red", "blue", "none"}],
          tl \in [RunTeams -> RunTimelines] :
           StoreIs([n \in {TimdName(t, "1") : t \in RunTeams} |-> tl[TeamOf(n)]],
                   "1" :> [redTeams |-> {t \in RunTeams : side[t] = "red"},
                           blueTeams |-> {t \in RunTeams : side[t] = "blue"}],
                   [t \in RunTeams |-> Baseline(1, 1, 10, 5)])
    /\ listing = <<TimdName("1", "1"), TimdName("2", "1"), TimdName("3", "1")>>
    /\ Idle

\* Runs of calculate_defense.py, one after the other, on a whole match.
SpecMatch == InitMatch /\ [][calculate_defense]_vars

\* The most actions on the timeline of the defended robot.
MaxCycleActions == 3

\* What a defended robot does: intakes, one of them defended, and defended
\* drops and placements.
CycleActions ==
    {Intake(100, "cargo"), Intake(100, "panel"),
     DefendedDrop(98, "cargo"),
     DefendedIntake(95, "panel"),
     DefendedPlacement(92, "cargo", TRUE),
     DefendedPlacement(92, "panel", FALSE),
     Intake(90, "cargo"),
     DefendedPlacement(80, "cargo", TRUE)}

\* The Team Baseline files of the defended robot: none, one that lacks
\* fields, and the averages 0 or not.
Baselines ==
    {NoFile, [calculatedData |-> [avgCargoDrops |-> 1, avgPanelDrops |-> 1]]}
    \cup {Baseline(d, f, c, t) : d \in {0, 1}, f \in {0, 1}, c \in {0, 10},
                                 t \in {0, 5}}

\* Team 1, red, defends from 120 to 60; team 2, blue, has any bounded
\* timeline of cycle actions and any of the baselines.
InitPoints ==
    /\ \E tl \in TimelinesOver(CycleActions, MaxCycleActions),
          baseline \in Baselines :
           StoreIs(TimdName("1", "1") :> <<StartDefense(120), EndDefense(60)>>
                   @@ TimdName("2", "1") :> tl,
                   "1" :> [redTeams |-> {"1"}, blueTeams |-> {"2"}],
                   "2" :> baseline)
    /\ listing = <<TimdName("1", "1"), TimdName("2", "1")>>
    /\ Idle

\* Runs of calculate_defense.py on one defender and one defended robot.
SpecPoints == InitPoints /\ [][calculate_defense]_vars

\* The most defense actions on the timeline of a defender.
MaxDefenseLen == 3

DefenseActions ==
    {StartDefense(t) : t \in {100, 60, 20}}
    \cup {EndDefense(t) : t \in {100, 60, 20}}

\* Teams 1 and 2, red: team 1 with any bounded timeline of defense actions,
\* team 2 defending from 120 to 60; team 3, blue, is defended at 90 and 30.
InitWindows ==
    /\ \E tl \in TimelinesOver(DefenseActions, MaxDefenseLen) :
           StoreIs(TimdName("1", "1") :> tl
                   @@ TimdName("2", "1")
                      :> <<StartDefense(120), EndDefense(60)>>
                   @@ TimdName("3", "1")
                      :> <<Intake(100, "cargo"), DefendedDrop(90, "cargo"),
                           Intake(40, "cargo"), DefendedDrop(30, "cargo")>>,
                   "1" :> [redTeams |-> {"1", "2"}, blueTeams |-> {"3"}],
                   [t \in RunTeams |-> Baseline(1, 1, 10, 5)])
    /\ listing = <<TimdName("1", "1"), TimdName("2", "1"), TimdName("3", "1")>>
    /\ Idle

\* Runs of calculate_defense.py on two defenders of one alliance.
SpecWindows == InitWindows /\ [][calculate_defense]_vars

\* Defense from 120 to 60 whose endDefense has no failedCyclesCaused.
UncreditedDefense == <<StartDefense(120), [type |-> "endDefense", time |-> 60]>>

\* Team 1, red, and team 2, blue, each with one of the timelines.
Init ==
    /\ \E tl \in [{"1", "2"} -> RunTimelines \cup {UncreditedDefense}] :
           StoreIs([n \in {TimdName("1", "1"), TimdName("2", "1")} |->
                       tl[TeamOf(n)]],
                   "1" :> [redTeams |-> {"1"}, blueTeams |-> {"2"}],
                   [t \in {"1", "2"} |-> Baseline(1, 1, 10, 5)])
    /\ listing = <<TimdName("1", "1"), TimdName("2", "1")>>
    /\ Idle

\* Both scripts, run one at a time in any order.
Spec == Init /\ [][Next]_vars

-----------------------------------------------------------------------------
(* Claims *)

\* The calculatedData of every TIMD file of the cache.
Calculated ==
    {cache[n].calculatedData :
        n \in {m \in DOMAIN cache : Has(cache[m], "calculatedData")}}

\* C10: in the Metrics Extractor's output for every timeline with
\* non-increasing times, every success rate is an integer in [0, 100] (or
\* null), every count, cargoCycles and panelCycles after the trailing-intake
\* subtraction included, is >= 0, and timeIncap, timeDefending and every
\* average cycle time that is not null are >= 0.
C10_RangesOfMetrics ==
    \A cd \in Calculated :
        /\ \A f \in FieldNames(SUCCESS_FIELDS) : cd[f] \in 0..100
        /\ \A f \in FieldNames(COUNT_FIELDS) \cup {"cargoCycles", "panelCycles"} :
               cd[f] >= 0
        /\ cd.timeIncap >= 0
        /\ cd.timeDefending >= 0
        /\ \A f \in FieldNames(CYCLE_FIELDS) \cap DOMAIN cd :
               cd[f] = None \/ cd[f][1] >= 0

\* C10's case: a record was extracted from a timeline that ends on a cargo
\* intake (so the subtraction acted) after a timed cycle, with a success
\* rate above 0.
C10_Witness ==
    \E n \in DOMAIN cache :
        /\ Has(cache[n], "calculatedData")
        /\ Len(cache[n].timeline) = 3
        /\ cache[n].timeline[3].type = "intake"
        /\ cache[n].timeline[3].piece = "cargo"
        /\ cache[n].calculatedData.cargoCycles = 1
        /\ cache[n].calculatedData.cargoSuccessAll = 100
        /\ cache[n].calculatedData.cargoCycleAll = <<100, 1>>

-----------------------------------------------------------------------------
(* Claims on the runs of calculate_defense.py over a whole match *)

\* The rosters of the match the run is at.
Rostered == match_schedule[match_number].redTeams
            \cup match_schedule[match_number].blueTeams

\* C1: at the end of a run, calculate_team.py has been requested for the
\* own team number of every robot the run processed as a defender, whatever
\* robots are on the opposing alliance.
C1_DefendersRequested ==
    pc = "done" => \A n \in DOMAIN writes : TeamOf(n) \in requested

\* C2: a TIMD whose team is on neither roster of its match is in neither
\* alliance's dict of TIMDs and neither alliance's dict of defenders, and
\* putting the TIMDs of the match in their alliances never ends the run.
C2_UnmatchedSetAside ==
    /\ \A a \in {"red", "blue"} :
           /\ \A i \in 1..Len(timds_by_alliance[a]) :
                  TeamOf(timds_by_alliance[a][i]) \in Rostered
           /\ \A i \in 1..Len(defending_timds_by_alliance[a]) :
                  TeamOf(defending_timds_by_alliance[a][i]) \in Rostered
    /\ ~(pc = "crashed" /\ error = "NameError" /\ timd = Unbound)

\* The defended actions of a stored timeline, the preload left aside.
DefendedActions(timeline) ==
    IF timeline = <<>> THEN <<>>
    ELSE SelectSeq(WithoutPreload(timeline),
                   LAMBDA action : ~NotDefended(action))

\* The alliance the defender `timd' faces.
Opponents ==
    IF TeamOf(timd) \in match_schedule[match_number].redTeams
    THEN timds_by_alliance.blue ELSE timds_by_alliance.red

\* The defended cycles the scan gave the defender of the team.
CyclesOn(team) ==
    SelectSeq(defended_cycles_by_team, LAMBDA entry : entry[1] = team)

\* C3: when exactly one robot of a match, all of its robots on a roster,
\* played defense, every action marked wasDefended on the timeline of every
\* opposing robot is one of the defended cycles of that defender, at
\* whatever time the action happened.
C3_SoleDefenderGetsAll ==
    (/\ pc = "save"
     /\ \A n \in DOMAIN TIMDS_BY_MATCH[match_number] : TeamOf(n) \in Rostered
     /\ Len(defending_timds_by_alliance.red)
        + Len(defending_timds_by_alliance.blue) = 1)
    => \A i \in 1..Len(Opponents) :
           LET defended == DefendedActions(cache[Opponents[i]].timeline)
               cycles == CyclesOn(TeamOf(Opponents[i]))
           IN  defended # <<>>
               => /\ Len(cycles) = 1
                  /\ [k \in 1..Len(cycles[1][2]) |-> cycles[1][2][k].time]
                     = [k \in 1..Len(defended) |-> defended[k].time]

\* C7: the run leaves the timelines it loaded as they are stored: the same
\* actions in the same order with the same fields.
C7_TimelinesUnchanged ==
    \A m \in DOMAIN TIMDS_BY_MATCH :
        \A n \in DOMAIN TIMDS_BY_MATCH[m] :
            TIMDS_BY_MATCH[m][n].timeline = cache[n].timeline

\* C5: a run that follows another on the same store writes, for every
\* defender, the points prevented and failed cycles caused the run before
\* it wrote.
C5_SecondRunWritesSame ==
    prev_writes.ran
    => \A n \in DOMAIN writes \cap DOMAIN prev_writes.wrote :
           writes[n] = prev_writes.wrote[n]

\* A second run is over and wrote points prevented other than 0.
C5_Witness ==
    /\ prev_writes.ran
    /\ pc = "done"
    /\ \E n \in DOMAIN writes \cap DOMAIN prev_writes.wrote :
           ~RatIsZero(writes[n].pointsPrevented)

-----------------------------------------------------------------------------
(* Claims on both scripts *)

\* C6: a write of calculatedData removes no field: whatever the scripts ran
\* since, the file of a defender holds the fields the last attribution
\* wrote to it, and every calculated file holds the extracted timeDefending.
C6_FieldsKept ==
    /\ \A n \in DOMAIN writes :
           /\ cache[n] # NoFile
           /\ Has(cache[n], "calculatedData")
           /\ DOMAIN writes[n] \subseteq DOMAIN cache[n].calculatedData
    /\ \A n \in DOMAIN cache :
           cache[n] # NoFile => Has(cache[n].calculatedData, "timeDefending")

-----------------------------------------------------------------------------
(* Claims on what one defender prevented on one robot *)

\* The defended cycles of a piece that satisfy `test'.
CountOf(defended_cycles, piece, test(_)) ==
    Cardinality({k \in 1..Len(defended_cycles) :
                    /\ defended_cycles[k].piece = piece
                    /\ test(defended_cycles[k])})

\* The formulas of C4 for one piece, each side multiplied by the
\* denominators: n cycles, d drops, f fails, k placements that did not fail
\* with cycle times summing to total, and the baseline of the robot.
C4_Formulas(defended_cycles, baseline, piece, points, failed) ==
    LET n == CountOf(defended_cycles, piece, LAMBDA action : TRUE)
        d == CountOf(defended_cycles, piece,
                     LAMBDA action : action.type = "drop")
        f == CountOf(defended_cycles, piece,
                     LAMBDA action : /\ action.type = "placement"
                                     /\ ~action.didSucceed)
        placed == SelectSeq(defended_cycles,
                            LAMBDA action : /\ action.piece = piece
                                            /\ action.type = "placement"
                                            /\ action.didSucceed)
        k == Len(placed)
        total == SumSeq([i \in 1..k |-> placed[i].intakeTime - placed[i].time])
        avgDrops == IF piece = "cargo" THEN baseline.avgCargoDrops
                    ELSE baseline.avgPanelDrops
        avgFails == IF piece = "cargo" THEN baseline.avgCargoFails
                    ELSE baseline.avgPanelFails
        avgCycles == IF piece = "cargo" THEN baseline.avgCargoCycles
                     ELSE baseline.avgPanelCycles
        avgCycleTime == IF piece = "cargo" THEN baseline.cargoCycleAll
                        ELSE baseline.panelCycleAll
        value == IF piece = "cargo" THEN 3 ELSE 2
        caused_times == d * (d * avgCycles - avgDrops * n)
                        + f * (f * avgCycles - avgFails * n)
    IN  /\ n > 0
        /\ failed[1] * (n * avgCycles) = failed[2] * caused_times
        /\ points[1] * (n * avgCycles * avgCycleTime)
           = points[2] * value
             * (caused_times * avgCycleTime
                + (total - k * avgCycleTime) * n * avgCycles)

\* The robot of the example: a cargo intake, a defended drop and a defended
\* placement 8 after the intake; its baseline has 1 drop in 10 cycles of 5.
C4_Example ==
    /\ final_timd[TimdName("2", "1")].timeline
       = <<Intake(100, "cargo"), DefendedDrop(98, "cargo"),
           DefendedPlacement(92, "cargo", TRUE)>>
    /\ teams["2"] # NoFile
    /\ Has(teams["2"].calculatedData, "avgCargoCycles")
    /\ teams["2"].calculatedData.avgCargoDrops = 1
    /\ teams["2"].calculatedData.avgCargoCycles = 10
    /\ teams["2"].calculatedData.cargoCycleAll = 5

\* C4: once the points prevented of a defender are computed, each robot it
\* has defended cycles of has an entry for just the pieces of these cycles,
\* and the entry is what the formulas give: drops caused (d/n - avgDrops /
\* avgCycles) * d, fails caused likewise, lost cycles sum(t - avgCycleTime)
\* / avgCycleTime, points prevented 3 (cargo) or 2 (panel) times their sum,
\* failed cycles caused drops caused + fails caused; the example gives 3.
C4_PointsFormula ==
    pc = "save"
    => /\ Len(alliance_points_prevented) = Len(defended_cycles_by_team)
       /\ Len(alliance_failed_cycles_caused) = Len(defended_cycles_by_team)
       /\ \A i \in 1..Len(defended_cycles_by_team) :
              LET team == defended_cycles_by_team[i][1]
                  defended_cycles == defended_cycles_by_team[i][2]
                  points == alliance_points_prevented[i][2]
                  failed == alliance_failed_cycles_caused[i][2]
              IN  /\ alliance_points_prevented[i][1] = team
                  /\ alliance_failed_cycles_caused[i][1] = team
                  /\ DOMAIN points
                     = {defended_cycles[k].piece :
                           k \in 1..Len(defended_cycles)}
                  /\ DOMAIN failed = DOMAIN points
                  /\ \A piece \in DOMAIN points :
                         C4_Formulas(defended_cycles,
                                     teams[team].calculatedData, piece,
                                     points[piece], failed[piece])
       /\ C4_Example
          => alliance_points_prevented
             = <<<<"2", "cargo" :> RatInt(3)>>>>

\* The points prevented on the robot of the example are computed.
C4_Witness == pc = "save" /\ C4_Example

\* The Team Baseline file lacks a field the computation reads, or is not
\* there at all.
LacksBaseline(team_file) ==
    \/ team_file = NoFile
    \/ ~Has(team_file, "calculatedData")
    \/ \E piece \in {"Cargo", "Panel"}, field \in {"Drops", "Fails", "Cycles"} :
           ~Has(team_file.calculatedData, "avg" \o piece \o field)
    \/ \E piece \in {"cargo", "panel"} :
           ~Has(team_file.calculatedData, piece \o "CycleAll")

\* C8: a run does not end on the missing Team Baseline of a robot the
\* defender has defended cycles of.
C8_MissingBaselineSkipped ==
    \A i \in 1..Len(defended_cycles_by_team) :
        LacksBaseline(TeamFile(defended_cycles_by_team[i][1]))
        => ~(pc = "crashed" /\ error \in {"FileNotFoundError", "KeyError"})

\* C9: no rate or average ends a run on a division by zero.
C9_NoZeroDivision == ~(pc = "crashed" /\ error = "ZeroDivisionError")

-----------------------------------------------------------------------------
(* Claims on the filters of the Metrics Extractor *)

\* What it is for an action to satisfy one predicate of a filter.
Satisfies(action, data_field, requirement) ==
    CASE data_field = "level" /\ requirement = 1 ->
             ~Has(action, "level") \/ action.level = 1
      [] data_field = "zone" /\ requirement = "loadingStation" ->
             /\ Has(action, "zone")
             /\ action.zone \in {"leftLoadingStation", "rightLoadingStation"}
      [] data_field = "time" /\ requirement = "sand" -> action.time > 135
      [] data_field = "time" /\ requirement = "tele" -> action.time <= 135
      [] OTHER -> Has(action, data_field) /\ action[data_field] = requirement

\* The actions of the timeline that satisfy every predicate, in order.
Satisfying(timeline, filters) ==
    SelectSeq(timeline,
              LAMBDA action : \A i \in 1..Len(filters) :
                  Satisfies(action, filters[i][1], filters[i][2]))

-----------------------------------------------------------------------------
(* Claims on the failed cycles caused the Metrics Extractor totals *)

\* C12: an extraction of a timeline whose endDefense actions have no
\* failedCyclesCaused succeeds, and an extraction of a defender's record
\* after a finished attribution run stores as totalFailedCyclesCaused the
\* failed cycles caused that the run credited to the defender.
C12_TotalIsCredited ==
    [][\A n \in DOMAIN final_timd :
          calculate_timd(n)
          => /\ error' = "none"
             /\ (pc = "done" /\ n \in DOMAIN writes)
                => RatInt(cache'[n].calculatedData.totalFailedCyclesCaused)
                   = writes[n].superFailedCyclesCaused]_vars

-----------------------------------------------------------------------------
(* Claims on the scan of an opposing timeline *)

\* The action is inside one of the windows of the defender.
InWindow(action) ==
    \E i \in 1..Len(time_pairs) :
        time_pairs[i][1] > action.time /\ action.time > time_pairs[i][2]

\* The places of a stored timeline that hold a defended action, not an
\* intake, inside a window, in order.
DefendedPlaces(timeline) ==
    SelectSeq([k \in 1..Len(timeline) |-> k],
              LAMBDA k : /\ ~NotDefended(timeline[k])
                         /\ timeline[k].type # "intake"
                         /\ InWindow(timeline[k]))

\* The last intake before place k of the timeline.
IntakeBefore(timeline, k) ==
    timeline[CHOOSE j \in 1..(k - 1) :
                 /\ timeline[j].type = "intake"
                 /\ \A i \in (j + 1)..(k - 1) : timeline[i].type # "intake"]

\* C13: once an opposing timeline that starts with an intake is scanned,
\* the defended cycles of its robot are its defended actions inside a
\* window, intakes left out, each with the time and the piece of the last
\* intake before it, defended or not.
C13_IntakeContext ==
    pc = "save"
    => \A i \in 1..Len(Opponents) :
           LET timeline == cache[Opponents[i]].timeline
               places == DefendedPlaces(timeline)
               cycles == CyclesOn(TeamOf(Opponents[i]))
           IN  (timeline # <<>> /\ timeline[1].type = "intake")
               => /\ Len(cycles) = IF places = <<>> THEN 0 ELSE 1
                  /\ places # <<>>
                     => [k \in 1..Len(cycles[1][2]) |->
                            <<cycles[1][2][k].time,
                              cycles[1][2][k].intakeTime,
                              cycles[1][2][k].piece>>]
                        = [k \in 1..Len(places) |->
                              <<timeline[places[k]].time,
                                IntakeBefore(timeline, places[k]).time,
                                IntakeBefore(timeline, places[k]).piece>>]

\* C14: a defended action with no intake before it on its timeline is no
\* defended cycle: the scan does not end on it, and no defended cycle is
\* without the time of an intake.
C14_NoCycleWithoutIntake ==
    /\ ~(pc = "crashed" /\ error = "NameError" /\ timd # Unbound)
    /\ \A i \in 1..Len(defended_cycles_by_team) :
           \A k \in 1..Len(defended_cycles_by_team[i][2]) :
               defended_cycles_by_team[i][2][k].intakeTime # NONE_TIME

-----------------------------------------------------------------------------
(* Claims on the defense windows *)

\* The defense actions of a timeline, each run of one type collapsed to its
\* first action.
CollapsedDefense(timeline) ==
    LET defense == SelectSeq(timeline,
                             LAMBDA action :
                                 action.type \in {"startDefense", "endDefense"})
        firsts == SelectSeq([k \in 1..Len(defense) |-> k],
                            LAMBDA k : \/ k = 1
                                       \/ defense[k].type # defense[k - 1].type)
    IN  [j \in 1..Len(firsts) |-> defense[firsts[j]]]

\* One window per startDefense of the collapsed actions: up to the
\* endDefense after it, or to 0 when it is the last.
WindowsOf(timeline) ==
    LET collapsed == CollapsedDefense(timeline)
        starts == SelectSeq([j \in 1..Len(collapsed) |-> j],
                            LAMBDA j : collapsed[j].type = "startDefense")
    IN  [w \in 1..Len(starts) |->
            <<collapsed[starts[w]].time,
              IF starts[w] < Len(collapsed)
              THEN collapsed[starts[w] + 1].time ELSE 0>>]

\* C15: for a defender that is not the only one of its alliance, the
\* defense windows are those of the collapsed startDefense/endDefense
\* actions of its timeline, the last closed at 0 when it is left open;
\* every window has a start, not before its end, and no two overlap.
C15_DefenseWindows ==
    (pc = "scan" /\ Len(defending_timds_by_alliance[alliance]) # 1)
    => /\ time_pairs = WindowsOf(cache[timd].timeline)
       /\ \A i \in 1..Len(time_pairs) :
              /\ time_pairs[i][1] # NONE_TIME
              /\ time_pairs[i][1] >= time_pairs[i][2]
              /\ \A j \in (i + 1)..Len(time_pairs) :
                     time_pairs[i][2] >= time_pairs[j][1]

-----------------------------------------------------------------------------
(* Claims on the paired durations of the Metrics Extractor *)

\* The defense actions of a timeline read as incap actions: startDefense
\* as incap, endDefense as unincap.
AsIncap(timeline) ==
    LET defense == SelectSeq(timeline,
                             LAMBDA action :
                                 action.type \in {"startDefense", "endDefense"})
    IN  [i \in 1..Len(defense) |->
            [type |-> IF defense[i].type = "startDefense"
                      THEN "incap" ELSE "unincap",
             time |-> defense[i].time]]

\* C16: timeDefending is what timeIncap is for the same actions read as
\* incap/unincap: the sum of start - end over the pairs, a last startDefense
\* closed at 0, and 0 with no defense action.
C16_DefendingAsIncap ==
    \A n \in DOMAIN cache :
        Has(cache[n], "calculatedData")
        => cache[n].calculatedData.timeDefending
           = timeIncap([timeline |-> AsIncap(cache[n].timeline)])

\* C17: every pair of the cycle list of an extracted timeline is an intake
\* that did not fail followed by a placement or a drop.
C17_CyclePairs ==
    \A n \in DOMAIN cache :
        (/\ Has(cache[n], "calculatedData")
         /\ Len(UnstrippedCycleList(cache[n])) > 1)
        => \A i \in 1..Len(paired_cycle_list(cache[n])) :
               LET cycle == paired_cycle_list(cache[n])[i]
               IN  /\ cycle[1].type = "intake"
                   /\ cycle[1].didSucceed
                   /\ cycle[2].type \in {"placement", "drop"}

-----------------------------------------------------------------------------
(* Claims on the start of the scan *)

\* C18: an opposing timeline with no action raises no error when it is
\* scanned, and its team gets no defended cycles.
C18_EmptyTimelineScanned ==
    /\ ~(pc = "crashed" /\ error = "IndexError")
    /\ \A i \in 1..Len(defended_cycles_by_team) :
           \A n \in DOMAIN final_timd :
               (/\ TeamOf(n) = defended_cycles_by_team[i][1]
                /\ pc = "scan" /\ MatchOf(n) = match_number)
               => final_timd[n].timeline # <<>>

=============================================================================
